---------------------------- MODULE Spec2Model ----------------------------
(***************************************************************************)
(* A model of the static-asset engine of electron-sirv (src/src/serve.ts): *)
(* the index built by serve(), path resolution (toAssume, viaCache,        *)
(* viaLocal), encoding negotiation, the single-page fallback with its      *)
(* ignore patterns, and the response built by the request handler and      *)
(* send().  Paths, header names and header values are strings, handled     *)
(* character by character as the JavaScript code handles them.             *)
(***************************************************************************)
EXTENDS Integers, Sequences, FiniteSets, TLC

(***************************************************************************)
(* Bounds of the model.                                                    *)
(***************************************************************************)
\* The number of requests one handler serves in a behaviour of Spec.
MaxRequests == 3

\* The number of requests one handler serves in a behaviour of ResolveSpec.
MaxLookups == 2

\* The number of requests served under CacheSpec.
MaxFetches == 2

\* The number of calls of the load function under WrapperSpec.
MaxLoads == 2

(***************************************************************************)
(* JavaScript string primitives used by the code.                          *)
(***************************************************************************)
\* s.charAt(i - 1): the i-th character (1-based), "" outside the string.
Ch(s, i) == IF i >= 1 /\ i <= Len(s) THEN SubSeq(s, i, i) ELSE ""

\* s.startsWith(p)
StartsWith(s, p) == Len(p) <= Len(s) /\ SubSeq(s, 1, Len(p)) = p

\* s.endsWith(p)
EndsWith(s, p) == Len(p) <= Len(s) /\ SubSeq(s, Len(s) - Len(p) + 1, Len(s)) = p

\* The 1-based positions at which sub occurs in s.
Occurrences(s, sub) ==
    {i \in 1..(Len(s) - Len(sub) + 1) : SubSeq(s, i, i + Len(sub) - 1) = sub}

\* s.includes(sub)
Includes(s, sub) == Occurrences(s, sub) # {}

Min(S) == CHOOSE m \in S : \A n \in S : m <= n

Max(S) == CHOOSE m \in S : \A n \in S : m >= n

\* s.indexOf(sub), 1-based, 0 when absent (JavaScript: 0-based, -1 when absent).
IndexOf(s, sub) ==
    LET first(occ) == IF occ = {} THEN 0 ELSE Min(occ)
    IN  first(Occurrences(s, sub))

\* s.lastIndexOf(sub), 1-based, 0 when absent.
LastIndexOf(s, sub) ==
    LET last(occ) == IF occ = {} THEN 0 ELSE Max(occ)
    IN  last(Occurrences(s, sub))

\* s.replace(pat, rep) with a string pattern: the first occurrence only.
ReplaceFirst(s, pat, rep) ==
    LET at(i) == IF i = 0 THEN s
                 ELSE SubSeq(s, 1, i - 1) \o rep \o SubSeq(s, i + Len(pat), Len(s))
    IN  at(IndexOf(s, pat))

\* The pieces of s from position `from` on, cut at the positions in occ.
RECURSIVE Pieces(_, _, _)
Pieces(s, occ, from) ==
    LET cut(i) == <<SubSeq(s, from, i - 1)>> \o Pieces(s, occ \ {i}, i + 1)
    IN  IF occ = {} THEN <<SubSeq(s, from, Len(s))>> ELSE cut(Min(occ))

\* s.split(sep) for a one-character separator: a sequence of strings.
Split(s, sep) == Pieces(s, Occurrences(s, sep), 1)

\* s.slice(-n): the last n characters (the whole string when shorter).
SliceLast(s, n) == SubSeq(s, Max({1, Len(s) - n + 1}), Len(s))

\* s.slice(0, -n): all but the last n characters.
DropLast(s, n) == SubSeq(s, 1, Len(s) - n)

Digits == {"0", "1", "2", "3", "4", "5", "6", "7", "8", "9"}

DigitVal == "0" :> 0 @@ "1" :> 1 @@ "2" :> 2 @@ "3" :> 3 @@ "4" :> 4 @@
            "5" :> 5 @@ "6" :> 6 @@ "7" :> 7 @@ "8" :> 8 @@ "9" :> 9

LowerLetters == {"a", "b", "c", "d", "e", "f", "g", "h", "i", "j", "k", "l", "m",
                 "n", "o", "p", "q", "r", "s", "t", "u", "v", "w", "x", "y", "z"}

UpperLetters == {"A", "B", "C", "D", "E", "F", "G", "H", "I", "J", "K", "L", "M",
                 "N", "O", "P", "Q", "R", "S", "T", "U", "V", "W", "X", "Y", "Z"}

\* The regular-expression class \w.
WordChars == LowerLetters \cup UpperLetters \cup Digits \cup {"_"}

\* The regular-expression class \s (the members a path can carry here).
SpaceChars == {" "}

\* parseInt(s, 10): leading white space, an optional sign, then decimal digits up
\* to the first other character; NaN when there is no digit.
RECURSIVE DigitsValue(_, _, _)
DigitsValue(s, i, acc) ==
    IF Ch(s, i) \in Digits THEN DigitsValue(s, i + 1, 10 * acc + DigitVal[Ch(s, i)])
    ELSE acc

RECURSIVE SkipSpaces(_, _)
SkipSpaces(s, i) == IF Ch(s, i) \in SpaceChars THEN SkipSpaces(s, i + 1) ELSE i

parseInt(s) ==
    LET number(i) ==
            LET neg == Ch(s, i) = "-"
                j   == IF Ch(s, i) \in {"-", "+"} THEN i + 1 ELSE i
            IN  IF Ch(s, j) \in Digits
                THEN [nan |-> FALSE,
                      val |-> IF neg THEN 0 - DigitsValue(s, j, 0)
                              ELSE DigitsValue(s, j, 0)]
                ELSE [nan |-> TRUE, val |-> 0]
    IN  number(SkipSpaces(s, 1))

\* p || d for a number p: d when p is NaN or 0.
OrElse(p, d) == IF p.nan \/ p.val = 0 THEN d ELSE p.val

(***************************************************************************)
(* Header mappings: functions from header names to string values.          *)
(***************************************************************************)
NoHeaders == [k \in {} |-> ""]

\* { ...a, ...b }: b wins on the names both carry.
Merge(a, b) ==
    [k \in DOMAIN a \cup DOMAIN b |-> IF k \in DOMAIN b THEN b[k] ELSE a[k]]

\* h[name] = value, on a copy.
SetHeader(h, name, value) == Merge(h, name :> value)

\* Whether header `name` is present with value `value`.
HasHeader(h, name, value) == name \in DOMAIN h /\ h[name] = value

(***************************************************************************)
(* The filesystem: a snapshot that no request changes.  The served root is *)
(* /srv/www; two files lie outside it.                                     *)
(***************************************************************************)
\* resolve(dir || "."): the absolute root directory, without a trailing separator.
RootDir == "/srv/www"

\* path.sep
sep == "/"

File(size, mtime) == [kind |-> "file", size |-> size, mtime |-> mtime]

Directory == [kind |-> "dir", size |-> 0, mtime |-> 0]

\* Absolute path -> what is there (fs.statSync).
Disk ==
    "/srv"                          :> Directory @@
    "/srv/secret.txt"               :> File(4, 70) @@
    "/srv/www-private"              :> Directory @@
    "/srv/www-private/key.html"     :> File(4, 70) @@
    "/srv/www"                      :> Directory @@
    "/srv/www/index.html"           :> File(5, 10) @@
    "/srv/www/foo.html"             :> File(3, 20) @@
    "/srv/www/bar"                  :> File(2, 30) @@
    "/srv/www/bar.html"             :> File(4, 30) @@
    "/srv/www/bar.html.br"          :> File(1, 30) @@
    "/srv/www/docs"                 :> Directory @@
    "/srv/www/docs/index.html"      :> File(6, 40) @@
    "/srv/www/docs/.html"           :> File(1, 40) @@
    "/srv/www/blog"                 :> Directory @@
    "/srv/www/blog/index.html"      :> File(7, 40) @@
    "/srv/www/blog.html"            :> File(8, 40) @@
    "/srv/www/app.js"               :> File(9, 50) @@
    "/srv/www/app.js.br"            :> File(2, 50) @@
    "/srv/www/app.js.gz"            :> File(3, 50) @@
    "/srv/www/empty.txt"            :> File(0, 60) @@
    "/srv/www/50%"                  :> File(1, 60) @@
    "/srv/www/.env"                 :> File(3, 60) @@
    "/srv/www/.well-known"          :> Directory @@
    "/srv/www/.well-known/acme.html" :> File(2, 60)

\* A path with its trailing separators removed (the root "/" stays).
RECURSIVE StripTrailingSep(_)
StripTrailingSep(p) ==
    IF Len(p) > 1 /\ EndsWith(p, sep) THEN StripTrailingSep(DropLast(p, 1)) ELSE p

\* fs.existsSync(abs): a path with a trailing separator names a directory only.
existsSync(abs) ==
    LET there(p) == /\ p \in DOMAIN Disk
                    /\ (EndsWith(abs, sep) => Disk[p].kind = "dir")
    IN  there(StripTrailingSep(abs))

\* fs.statSync(abs), for a path that exists.
statSync(abs) == Disk[StripTrailingSep(abs)]

\* The bytes of a file, as its byte offsets 0 .. size - 1.
Content(abs) == 0..(statSync(abs).size - 1)

(***************************************************************************)
(* node:path (POSIX): join and normalize.                                  *)
(***************************************************************************)
\* normalizeString for an absolute path: "." and empty segments are dropped, ".."
\* removes the segment before it and is dropped at the root.
RECURSIVE NormalizeSegments(_, _)
NormalizeSegments(segs, acc) ==
    IF segs = <<>> THEN acc
    ELSE LET s == Head(segs)
         IN  IF s = "" \/ s = "." THEN NormalizeSegments(Tail(segs), acc)
             ELSE IF s = ".."
             THEN NormalizeSegments(Tail(segs),
                     IF acc = <<>> THEN acc ELSE SubSeq(acc, 1, Len(acc) - 1))
             ELSE NormalizeSegments(Tail(segs), Append(acc, s))

RECURSIVE JoinSegments(_)
JoinSegments(segs) ==
    IF segs = <<>> THEN ""
    ELSE IF Len(segs) = 1 THEN Head(segs)
    ELSE Head(segs) \o sep \o JoinSegments(Tail(segs))

\* path.normalize(p) for an absolute p; a trailing separator is kept.
normalize(p) ==
    LET rooted(body) == IF body = "" THEN sep
                        ELSE sep \o body \o (IF EndsWith(p, sep) THEN sep ELSE "")
    IN  rooted(JoinSegments(NormalizeSegments(Split(p, sep), <<>>)))

\* path.join(a, b) before its normalization: the parts joined by a separator.
join(a, b) == a \o sep \o b

(***************************************************************************)
(* mrmime's lookup: the content type of a file name, by its extension.     *)
(***************************************************************************)
\* s.toLowerCase()
LowerOf == 
    "A" :> "a" @@ "B" :> "b" @@ "C" :> "c" @@ "D" :> "d" @@ "E" :> "e" @@ "F" :> "f" @@
    "G" :> "g" @@ "H" :> "h" @@ "I" :> "i" @@ "J" :> "j" @@ "K" :> "k" @@ "L" :> "l" @@
    "M" :> "m" @@ "N" :> "n" @@ "O" :> "o" @@ "P" :> "p" @@ "Q" :> "q" @@ "R" :> "r" @@
    "S" :> "s" @@ "T" :> "t" @@ "U" :> "u" @@ "V" :> "v" @@ "W" :> "w" @@ "X" :> "x" @@
    "Y" :> "y" @@ "Z" :> "z"

RECURSIVE toLowerCase(_)
toLowerCase(s) ==
    IF s = "" THEN ""
    ELSE (IF Head(s) \in DOMAIN LowerOf THEN LowerOf[Head(s)] ELSE Head(s))
         \o toLowerCase(Tail(s))

\* mrmime's table, for the extensions of the files served here.
MimeTypes ==
    "html" :> "text/html" @@ "htm" :> "text/html" @@ "js" :> "text/javascript" @@
    "txt" :> "text/plain"

\* lookup(name) || "": the table is read at the text after the last "." of the
\* lower-cased name, or at the whole name when it has no ".".
MimeLookup(name) ==
    LET type(ext) == IF ext \in DOMAIN MimeTypes THEN MimeTypes[ext] ELSE ""
        cut(tmp, idx) == IF idx = 0 THEN tmp ELSE SubSeq(tmp, idx + 1, Len(tmp))
        of(tmp) == type(cut(tmp, LastIndexOf(tmp, ".")))
    IN  of(toLowerCase(name))

(***************************************************************************)
(* toHeaders: the headers of a file, from its name and stats.              *)
(***************************************************************************)
ENCODING == ".br" :> "br" @@ ".gz" :> "gzip"

\* stats.mtime.toUTCString(): the HTTP date of the modification time; the model
\* keeps the instant and marks the formatting.
toUTCString(mtime) == "UTC(" \o ToString(mtime) \o ")"

\* `W/"${stats.size}-${stats.mtime.getTime()}"`
WeakETag(stats) == "W/\"" \o ToString(stats.size) \o "-" \o ToString(stats.mtime) \o "\""

toHeaders(name, stats, isEtagArg) ==
    LET hasEnc == SliceLast(name, 3) \in DOMAIN ENCODING
        charset(ctype) == IF ctype = "text/html" THEN ctype \o ";charset=utf-8" ELSE ctype
        base   == "Content-Length" :> ToString(stats.size) @@
                  "Content-Type" :>
                      charset(MimeLookup(IF hasEnc THEN DropLast(name, 3) ELSE name)) @@
                  "Last-Modified" :> toUTCString(stats.mtime)
        encoded(h) == IF hasEnc
                      THEN SetHeader(h, "Content-Encoding", ENCODING[SliceLast(name, 3)])
                      ELSE h
        tagged(h) == IF isEtagArg THEN SetHeader(h, "ETag", WeakETag(stats)) ELSE h
    IN  tagged(encoded(base))

\* The candidate loop pushing each index form before the plain form.
RECURSIVE AssumeIndexFirst(_, _)
AssumeIndexFirst(uri, exts) ==
    IF exts = <<>> THEN <<>>
    ELSE LET x == IF Head(exts) # "" THEN "." \o Head(exts) ELSE ""
         IN  <<uri \o "/index" \o x>>
             \o (IF uri # "" THEN <<uri \o x>> ELSE <<>>)
             \o AssumeIndexFirst(uri, Tail(exts))

(***************************************************************************)
(* toAssume: the candidate names of a request path, in priority order.     *)
(***************************************************************************)
RECURSIVE AssumeFrom(_, _)
AssumeFrom(uri, exts) ==
    IF exts = <<>> THEN <<>>
    ELSE LET x == IF Head(exts) # "" THEN "." \o Head(exts) ELSE ""
         IN  (IF uri # "" THEN <<uri \o x>> ELSE <<>>)
             \o <<uri \o "/index" \o x>>
             \o AssumeFrom(uri, Tail(exts))

\* toAssume without the removal of the trailing slash.
toAssumeKeepSlash(uri, exts) == AssumeFrom(uri, exts)

toAssume(uri, exts) ==
    AssumeFrom(IF EndsWith(uri, "/") THEN DropLast(uri, 1) ELSE uri, exts)

(***************************************************************************)
(* The options of serve(dir, opts) and what serve() derives from them.     *)
(***************************************************************************)
\* opts.single: absent or false (on = FALSE), true (doc = ""), or a document name.
Single(on, doc) == [on |-> on, doc |-> doc]

\* opts.ignores: absent (on = FALSE) or a list of patterns, [] included.
Ignores(on, patterns) == [on |-> on, patterns |-> patterns]

\* opts.maxAge: absent (on = FALSE) or a number.
MaxAge(on, value) == [on |-> on, value |-> value]

\* opts.setHeaders: absent (on = FALSE), or a hook that returns `returns`.
Hook(on, returns) == [on |-> on, returns |-> returns]

\* opts.extensions || ["html", "htm"]
extensions == <<"html", "htm">>

\* extensions.map(x => `${x}.${enc}`).concat(enc)
RECURSIVE WithEncoding(_, _)
WithEncoding(exts, enc) ==
    IF exts = <<>> THEN <<enc>>
    ELSE <<Head(exts) \o "." \o enc>> \o WithEncoding(Tail(exts), enc)

gzips == WithEncoding(extensions, "gz")

brots == WithEncoding(extensions, "br")

\* let fallback = "/"; a string opts.single is appended, cut at its last ".".
fallback(o) ==
    LET cut(idx) == IF idx # 0 THEN SubSeq(o.single.doc, 1, idx - 1) ELSE o.single.doc
    IN  "/" \o cut(LastIndexOf(o.single.doc, "."))

\* The Cache-Control value cc; "" stands for false (no max-age configured).
cc(o) ==
    IF ~o.maxAge.on THEN ""
    ELSE "public,max-age=" \o ToString(o.maxAge.value)
         \o (IF o.immutable THEN ",immutable"
             ELSE IF o.maxAge.value = 0 THEN ",must-revalidate" ELSE "")

(***************************************************************************)
(* The ignore patterns of the single-page fallback, and isMatch.           *)
(***************************************************************************)
\* The class [A-Za-z\s\d~$._-]
ExtnClass ==
    LowerLetters \cup UpperLetters \cup SpaceChars \cup Digits \cup {"~", "$", ".", "_", "-"}

AllIn(s, class) == \A j \in 1..Len(s) : Ch(s, j) \in class

\* /[/]([A-Za-z\s\d~$._-]+\.\w+){1,}$/ : after some "/", the rest of the path is
\* one or more groups of class characters, a ".", and word characters.  The class
\* holds "." and every word character, so a run of groups is itself one group:
\* the rest is class characters only and ends in a "." (not its first character)
\* followed by one or more word characters.
AnyExtn(uri) ==
    \E i \in Occurrences(uri, "/") :
        LET group(r) == /\ AllIn(r, ExtnClass)
                        /\ \E k \in 2..(Len(r) - 1) :
                              /\ Ch(r, k) = "."
                              /\ AllIn(SubSeq(r, k + 1, Len(r)), WordChars)
        IN  group(SubSeq(uri, i + 1, Len(uri)))

\* /\/\.\w/
DotSegment(uri) ==
    \E i \in Occurrences(uri, "/.") : Ch(uri, i + 2) \in WordChars

\* /\/\.well-known/
WellKnownSegment(uri) == Includes(uri, "/.well-known")

\* new RegExp(x, "i") for a pattern x without metacharacters.
UserPattern(uri, x) == Includes(toLowerCase(uri), toLowerCase(x))

\* isMatch(uri, ignores) with the ignores array serve() builds.
isMatch(uri, o) ==
    /\ o.ignores.on
    /\ \/ AnyExtn(uri)
       \/ (IF o.dotfiles THEN DotSegment(uri) ELSE WellKnownSegment(uri))
       \/ \E n \in 1..Len(o.ignores.patterns) : UserPattern(uri, o.ignores.patterns[n])

(***************************************************************************)
(* The index FILES, built by totalist's walk of the root.                  *)
(***************************************************************************)
\* A walk that takes every file whose path starts with the root's name, the
\* root's siblings of a longer name included.
TotalistByPrefix ==
    {abs \in DOMAIN Disk : Disk[abs].kind = "file" /\ StartsWith(abs, RootDir)}

\* totalist(dir, cb): the files under dir, each with its name relative to dir.
Totalist ==
    {abs \in DOMAIN Disk : Disk[abs].kind = "file" /\ StartsWith(abs, RootDir \o sep)}

RelName(abs) == SubSeq(abs, Len(RootDir \o sep) + 1, Len(abs))

\* /\.well-known[\\+\/]/
WellKnownName(name) ==
    \E i \in Occurrences(name, ".well-known") :
        Ch(name, i + Len(".well-known")) \in {"\\", "+", "/"}

\* /(^\.|[\\+|\/+]\.)/
HiddenName(name) ==
    \/ StartsWith(name, ".")
    \/ \E i \in Occurrences(name, ".") : Ch(name, i - 1) \in {"\\", "+", "|", "/"}

\* The callback's filter: a name is kept unless it is hidden, not under
\* .well-known, and dotfiles are off.
Indexed(name, o) == WellKnownName(name) \/ o.dotfiles \/ ~HiddenName(name)

\* name.replace(/\\+/g, "/"): every run of backslashes becomes one "/".
RECURSIVE SlashesOf(_)
SlashesOf(name) ==
    IF name = "" THEN ""
    ELSE IF Head(name) = "\\"
    THEN (IF Ch(name, 2) = "\\" THEN "" ELSE "/") \o SlashesOf(Tail(name))
    ELSE Head(name) \o SlashesOf(Tail(name))

\* "/" + name.normalize().replace(/\\+/g, "/")
KeyOf(abs) == "/" \o SlashesOf(RelName(abs))

Entry(abs, stats, headers) == [abs |-> abs, stats |-> stats, headers |-> headers]

\* The index after construction: empty under noCache.
BuildIndex(o) ==
    IF o.noCache THEN [k \in {} |-> Entry("", File(0, 0), NoHeaders)]
    ELSE LET kept == {abs \in Totalist : Indexed(RelName(abs), o)}
             absOf(k) == CHOOSE abs \in kept : KeyOf(abs) = k
             hdrs(abs) == toHeaders(RelName(abs), Disk[abs], o.etag)
         IN  [k \in {KeyOf(abs) : abs \in kept} |->
                 Entry(absOf(k), Disk[absOf(k)],
                       IF cc(o) # "" THEN SetHeader(hdrs(absOf(k)), "Cache-Control", cc(o))
                       ELSE hdrs(absOf(k)))]

(***************************************************************************)
(* Path resolution: viaCache over the index, viaLocal over the filesystem. *)
(***************************************************************************)
\* What a lookup returns: undefined (found = FALSE) or an entry; key is the index
\* key of a cached entry, the object the handler goes on to change.
NotFound == [found |-> FALSE, key |-> "", abs |-> "", stats |-> File(0, 0),
             headers |-> NoHeaders]

Found(key, e) == [found |-> TRUE, key |-> key, abs |-> e.abs, stats |-> e.stats,
                  headers |-> e.headers]

\* The first position of arr whose element satisfies P, 0 when there is none.
RECURSIVE FirstFrom(_, _, _)
FirstFrom(arr, P(_), i) ==
    IF i > Len(arr) THEN 0
    ELSE IF P(arr[i]) THEN i
    ELSE FirstFrom(arr, P, i + 1)

FirstWhere(arr, P(_)) == FirstFrom(arr, P, 1)

viaCache(cache, uri, exts) ==
    LET at(arr, i) == IF i = 0 THEN NotFound ELSE Found(arr[i], cache[arr[i]])
        over(arr) == at(arr, FirstWhere(arr, LAMBDA name : name \in DOMAIN cache))
    IN  over(toAssume(uri, exts))

\* The test of viaLocal's loop body: the normalized path stays under dir, exists,
\* and is no directory.
LocalHit(dir, name) ==
    LET hit(abs) == /\ StartsWith(abs, dir)
                    /\ existsSync(abs)
                    /\ statSync(abs).kind # "dir"
    IN  hit(normalize(join(dir, name)))

viaLocal(dir, isEtagArg, uri, exts) ==
    LET entry(name, abs, stats) ==
            Found("", Entry(abs, stats,
                SetHeader(toHeaders(name, stats, isEtagArg), "Cache-Control",
                          IF isEtagArg THEN "no-cache" ELSE "no-store")))
        stat(name, abs) == entry(name, abs, statSync(abs))
        at(arr, i) == IF i = 0 THEN NotFound
                      ELSE stat(arr[i], normalize(join(dir, arr[i])))
        over(arr) == at(arr, FirstWhere(arr, LAMBDA name : LocalHit(dir, name)))
    IN  over(toAssume(uri, exts))

\* let lookup = opts.noCache ? viaLocal.bind(0, dir + sep, isEtag) : viaCache.bind(0, FILES)
lookup(files, o, uri, exts) ==
    IF o.noCache THEN viaLocal(RootDir \o sep, o.etag, uri, exts)
    ELSE viaCache(files, uri, exts)

(***************************************************************************)
(* decodeURI, as the handler uses it: the decoded path, or a URIError.     *)
(***************************************************************************)
HexVal ==
    DigitVal @@ "a" :> 10 @@ "b" :> 11 @@ "c" :> 12 @@ "d" :> 13 @@ "e" :> 14 @@
    "f" :> 15 @@ "A" :> 10 @@ "B" :> 11 @@ "C" :> 12 @@ "D" :> 13 @@ "E" :> 14 @@
    "F" :> 15

\* The printable ASCII characters from code 32 to code 95, and from 97 to 126.
AsciiLow == " !\"#$%&'()*+,-./0123456789:;<=>?@ABCDEFGHIJKLMNOPQRSTUVWXYZ[\\]^_"

AsciiHigh == "abcdefghijklmnopqrstuvwxyz{|}~"

\* String.fromCharCode(b) for those codes, "" for the others.
fromCharCode(b) ==
    IF b >= 32 /\ b <= 95 THEN Ch(AsciiLow, b - 31)
    ELSE IF b >= 97 /\ b <= 126 THEN Ch(AsciiHigh, b - 96)
    ELSE ""

\* The characters decodeURI leaves escaped.
UriReserved == {";", "/", "?", ":", "@", "&", "=", "+", "$", ",", "#"}

IsEscape(s, i) ==
    Ch(s, i) = "%" /\ Ch(s, i + 1) \in DOMAIN HexVal /\ Ch(s, i + 2) \in DOMAIN HexVal

ByteAt(s, i) == 16 * HexVal[Ch(s, i + 1)] + HexVal[Ch(s, i + 2)]

\* The number of continuation bytes a UTF-8 lead byte announces; -1 for a byte
\* that starts no character.
Continuations(b) ==
    IF b < 128 THEN 0
    ELSE IF b >= 194 /\ b <= 223 THEN 1
    ELSE IF b >= 224 /\ b <= 239 THEN 2
    ELSE IF b >= 240 /\ b <= 244 THEN 3
    ELSE 0 - 1

\* One escape sequence at the head of s is well formed.
WellFormedEscape(s) ==
    /\ IsEscape(s, 1)
    /\ Continuations(ByteAt(s, 1)) >= 0
    /\ \A k \in 1..Continuations(ByteAt(s, 1)) :
          IsEscape(s, 1 + 3 * k) /\ ByteAt(s, 1 + 3 * k) \in 128..191

\* What a well-formed escape at the head of s decodes to.  A reserved character
\* stays escaped, as in JavaScript; a character the strings of this model cannot
\* carry (a control character, a backquote, one beyond ASCII) is written as its
\* escape too.
Unescaped(s) ==
    LET char(c, n) == IF n = 0 /\ c # "" /\ c \notin UriReserved THEN c
                      ELSE SubSeq(s, 1, 3 * (n + 1))
        of(b) == char(fromCharCode(b), Continuations(b))
    IN  of(ByteAt(s, 1))

RECURSIVE decodeURI(_)
decodeURI(s) ==
    IF s = "" THEN [ok |-> TRUE, out |-> ""]
    ELSE LET then(c, r) == [ok |-> r.ok, out |-> c \o r.out]
             escape(n) == then(Unescaped(s), decodeURI(SubSeq(s, 3 * (n + 1) + 1, Len(s))))
         IN  IF Head(s) # "%" THEN then(Head(s), decodeURI(Tail(s)))
             ELSE IF ~WellFormedEscape(s) THEN [ok |-> FALSE, out |-> ""]
             ELSE escape(Continuations(ByteAt(s, 1)))

\* new URL(req.url).pathname: the URL parser drops the dot segments of the path, in
\* their escaped spellings too; "." or ".." as the last segment leaves a trailing
\* slash.  Every other segment is kept as written (the paths served hold no
\* character the parser escapes).
SingleDot == {".", "%2e", "%2E"}

DoubleDot == {a \o b : a, b \in SingleDot}

RECURSIVE UrlSegments(_, _)
UrlSegments(segs, acc) ==
    IF segs = <<>> THEN acc
    ELSE LET closing == IF Len(segs) = 1 THEN <<"">> ELSE <<>>
         IN  IF Head(segs) \in DoubleDot
             THEN UrlSegments(Tail(segs),
                     (IF acc = <<>> THEN acc ELSE SubSeq(acc, 1, Len(acc) - 1))
                     \o closing)
             ELSE IF Head(segs) \in SingleDot
             THEN UrlSegments(Tail(segs), acc \o closing)
             ELSE UrlSegments(Tail(segs), Append(acc, Head(segs)))

UrlPathname(url) == "/" \o JoinSegments(UrlSegments(Tail(Split(url, "/")), <<>>))

\* A decoding whose failure leaves the root path instead of the path as sent.
DecodedPathOrRoot(pathname) ==
    LET caught(d) == IF d.ok THEN d.out ELSE "/"
    IN  IF Includes(pathname, "%") THEN caught(decodeURI(pathname)) ELSE pathname

\* if (pathname.indexOf("%") !== -1) try { pathname = decodeURI(pathname) } catch {}
DecodedPath(pathname) ==
    LET caught(d) == IF d.ok THEN d.out ELSE pathname
    IN  IF Includes(pathname, "%") THEN caught(decodeURI(pathname)) ELSE pathname

(***************************************************************************)
(* Requests and responses.                                                 *)
(***************************************************************************)
\* req.headers.get(name); "" stands for null where the code only tests truthiness.
Get(r, name) == IF name \in DOMAIN r.headers THEN r.headers[name] ELSE ""

\* A request: the path of req.url as the client wrote it (scheme and host are
\* fixed, and no query or fragment is sent) and the headers the handler reads.
Request(url, headers) == [url |-> url, headers |-> headers]

\* A response, or the exception the handler raised (outcome "throw").  bytes is
\* the body as the byte offsets of file abs it carries, in order.
Response(status, headers, hasBody, abs, bytes) ==
    [outcome |-> "response", status |-> status, headers |-> headers,
     hasBody |-> hasBody, abs |-> abs, bytes |-> bytes]

Thrown(headers, abs) ==
    [outcome |-> "throw", status |-> 0, headers |-> headers, hasBody |-> FALSE,
     abs |-> abs, bytes |-> {}]

NoResponse ==
    [outcome |-> "none", status |-> 0, headers |-> NoHeaders, hasBody |-> FALSE,
     abs |-> "", bytes |-> {}]

\* is404: new Response(null, { status: 404 })
is404 == Response(404, NoHeaders, FALSE, "", {})

(***************************************************************************)
(* send: the range branch, and the stream of the file.                     *)
(***************************************************************************)
\* fs.createReadStream(abs, { start, end }): Node rejects a negative bound and a
\* start beyond the end with a RangeError, raised in the call; otherwise the
\* stream carries the bytes of the file from start to end, both included.
StreamRejects(start, end) == start < 0 \/ end < 0 \/ start > end

StreamBytes(abs, start, end) == {i \in Content(abs) : start <= i /\ i <= end}

\* The two numbers the range branch parses: [x, y] = range.replace("bytes=", "").split("-")
RangeStart(range) ==
    OrElse(parseInt(Split(ReplaceFirst(range, "bytes=", ""), "-")[1]), 0)

RangeEnd(range, size) ==
    LET y(parts) == IF Len(parts) >= 2 THEN parts[2] ELSE "undefined"
    IN  OrElse(parseInt(y(Split(ReplaceFirst(range, "bytes=", ""), "-"))), size - 1)

\* The headers the range branch writes into data.headers.
RangeHeaders(headers, start, end, size) ==
    SetHeader(
        SetHeader(
            SetHeader(
                IF start >= size
                THEN SetHeader(headers, "Content-Range", "bytes */" \o ToString(size))
                ELSE headers,
                "Content-Range",
                "bytes " \o ToString(start) \o "-" \o ToString(end) \o "/" \o ToString(size)),
            "Content-Length", ToString(end - start + 1)),
        "Accept-Ranges", "bytes")

\* send(req, data): the response, or the exception of createReadStream; either
\* way its headers field is data.headers as send leaves it.
send(r, data) ==
    LET size == data.stats.size
        stream(code, headers, start, optsEnd) ==
            IF StreamRejects(start, optsEnd) THEN Thrown(headers, data.abs)
            ELSE Response(code, headers, TRUE, data.abs,
                          StreamBytes(data.abs, start, optsEnd))
        ranged(start, optsEnd) ==
            stream(IF start >= size THEN 416 ELSE 206,
                   RangeHeaders(data.headers, start,
                                IF optsEnd >= size THEN size - 1 ELSE optsEnd, size),
                   start, optsEnd)
    IN  IF Get(r, "range") = ""
        THEN Response(200, data.headers, TRUE, data.abs, Content(data.abs))
        ELSE ranged(RangeStart(Get(r, "range")), RangeEnd(Get(r, "range"), size))

(***************************************************************************)
(* The request handler serve() returns.                                    *)
(***************************************************************************)
\* The suffix list with the gzip suffixes unshifted last, ahead of the brotli ones.
NegotiateGzipFirst(o, val) ==
    (IF o.gzip /\ Includes(val, "gzip") THEN gzips ELSE <<>>)
    \o (IF o.brotli /\ Includes(toLowerCase(val), "br") THEN brots ELSE <<>>)
    \o <<"">> \o extensions

\* The suffix list: [...brots, ...gzips, "", ...extensions]
Negotiate(o, val) ==
    (IF o.brotli /\ Includes(toLowerCase(val), "br") THEN brots ELSE <<>>)
    \o (IF o.gzip /\ Includes(val, "gzip") THEN gzips ELSE <<>>)
    \o <<"">> \o extensions

\* lookup(pathname, extns) || (isSPA && !isMatch(pathname, ignores) && lookup(fallback, extns))
Resolve(files, o, pathname, exts) ==
    LET orFallback(direct) ==
            IF direct.found THEN direct
            ELSE IF o.single.on /\ ~isMatch(pathname, o)
            THEN lookup(files, o, fallback(o), exts)
            ELSE NotFound
    IN  orFallback(lookup(files, o, pathname, exts))

\* The conditional check reading the entry's header under the name "Etag", which
\* no entry carries.
NotModifiedWrongName(o, r, data) ==
    /\ o.etag
    /\ "if-none-match" \in DOMAIN r.headers
    /\ "Etag" \in DOMAIN data.headers
    /\ r.headers["if-none-match"] = data.headers["Etag"]

\* The conditional check made only of requests without a Range header.
NotModifiedUnlessRange(o, r, data) ==
    /\ o.etag
    /\ "range" \notin DOMAIN r.headers
    /\ "if-none-match" \in DOMAIN r.headers
    /\ "ETag" \in DOMAIN data.headers
    /\ r.headers["if-none-match"] = data.headers["ETag"]

\* isEtag && req.headers.get("if-none-match") === data.headers["ETag"]
NotModified(o, r, data) ==
    /\ o.etag
    /\ "if-none-match" \in DOMAIN r.headers
    /\ "ETag" \in DOMAIN data.headers
    /\ r.headers["if-none-match"] = data.headers["ETag"]

\* if (gzips || brots) data.headers["Vary"] = "Accept-Encoding"
WithVary(o, headers) ==
    IF o.gzip \/ o.brotli THEN SetHeader(headers, "Vary", "Accept-Encoding") ELSE headers

\* setHeaders(req, data, pathname): the default hook returns data.headers.
setHeaders(o, r, data, pathname) ==
    IF o.setHeaders.on THEN o.setHeaders.returns ELSE data.headers

\* One call of the handler on index `files`: the response (or exception) and the
\* index afterwards.  A cached entry is the object the handler writes to, so the
\* headers the handler and send leave in data.headers stay in the index.
handler(r, files, o) ==
    LET sent(data, out) ==
            [files |-> IF o.noCache THEN files
                       ELSE [files EXCEPT ![data.key].headers = out.headers],
             resp  |-> out]
        merged(pathname, varied) ==
            [varied EXCEPT !.headers =
                Merge(varied.headers, setHeaders(o, r, varied, pathname))]
        respond(pathname, data) ==
            IF ~data.found THEN [files |-> files, resp |-> is404]
            ELSE IF NotModified(o, r, data)
            THEN [files |-> files,
                  resp  |-> Response(304, data.headers, FALSE, data.abs, {})]
            ELSE sent(data,
                      send(r, merged(pathname,
                                     [data EXCEPT !.headers = WithVary(o, data.headers)])))
        onPath(pathname) ==
            respond(pathname,
                    Resolve(files, o, pathname, Negotiate(o, Get(r, "accept-encoding"))))
    IN  onPath(DecodedPath(UrlPathname(r.url)))

(***************************************************************************)
(* The construction of a server: the engine's serve(dir, opts) and the     *)
(* Electron wrapper's serve(options | URL) with the load function it       *)
(* returns.                                                                *)
(***************************************************************************)
\* process.cwd() and electron.app.getAppPath().
Cwd == RootDir

AppPath == "/srv"

\* path.resolve(from, to): to when it is absolute, else to under from; normalized,
\* without a trailing separator.
resolve(from, to) ==
    StripTrailingSep(normalize(IF StartsWith(to, sep) THEN to ELSE join(from, to)))

\* What serve(dir, opts) leaves: the handler it returned and the root it serves,
\* dir = resolve(dir || ".").
NotBuilt == [outcome |-> "none", given |-> "", dir |-> ""]

Built(dir) ==
    [outcome |-> "returned", given |-> dir,
     dir |-> resolve(Cwd, IF dir = "" THEN "." ELSE dir)]

\* The arguments of the wrapper's serve: a URL, or options, where "" stands for
\* an option that is not given.
UrlArg(href) == [kind |-> "url", href |-> href, directory |-> "", scheme |-> "",
                 hostname |-> ""]

OptionsArg(directory, scheme, hostname) ==
    [kind |-> "options", href |-> "", directory |-> directory, scheme |-> scheme,
     hostname |-> hostname]

\* options = {isCorsEnabled: true, scheme: "app", hostname: "-", file: "index", ...options}
WithDefaults(arg) ==
    [arg EXCEPT !.scheme = IF arg.scheme = "" THEN "app" ELSE arg.scheme,
                !.hostname = IF arg.hostname = "" THEN "-" ELSE arg.hostname]

\* The search parameters of a call of the load function: none, or name-value pairs.
NoParams == [given |-> FALSE, pairs |-> <<>>]

Params(pairs) == [given |-> TRUE, pairs |-> pairs]

\* The application/x-www-form-urlencoded byte serializer, for the characters the
\* parameters hold: letters, digits and *-._ are kept, a space becomes "+", any
\* other character its percent escape.
FormEscapes == [c \in {"&", "=", "/", "?"} |->
                  IF c = "&" THEN "%26" ELSE IF c = "=" THEN "%3D"
                  ELSE IF c = "/" THEN "%2F" ELSE "%3F"]

RECURSIVE FormEncode(_)
FormEncode(str) ==
    IF str = "" THEN ""
    ELSE LET c == SubSeq(str, 1, 1)
         IN  (IF c = " " THEN "+"
              ELSE IF c \in DOMAIN FormEscapes THEN FormEscapes[c]
              ELSE c) \o FormEncode(SubSeq(str, 2, Len(str)))

\* new URLSearchParams(searchParameters).toString()
RECURSIVE SearchString(_)
SearchString(pairs) ==
    IF pairs = <<>> THEN ""
    ELSE FormEncode(Head(pairs)[1]) \o "=" \o FormEncode(Head(pairs)[2])
         \o (IF Len(pairs) > 1 THEN "&" ELSE "") \o SearchString(Tail(pairs))

\* const queryString = searchParameters ? "?" + new URLSearchParams(...).toString() : ""
queryString(params) ==
    IF params.given THEN "?" \o SearchString(params.pairs) ELSE ""

\* The URL the load function hands to browserWindow.loadURL: the URL variant
\* loads urlString, the options variant scheme://hostname and the query string.
LoadedURL(w, params) ==
    IF w.arg.kind = "url" THEN w.arg.href
    ELSE w.arg.scheme \o "://" \o w.arg.hostname \o queryString(params)

\* The wrapper before serve() is called.
NoWrapper ==
    [outcome |-> "none", arg |-> UrlArg(""), privileged |-> {}, listeners |-> {},
     handlers |-> {}, ready |-> FALSE, window |-> "", asked |-> NoParams, loads |-> 0]

(***************************************************************************)
(* The state machine: one handler, its index, and the requests it serves.  *)
(***************************************************************************)
VARIABLES
    opts,        \* the options serve() was called with
    FILES,       \* the index: key -> entry (empty under noCache)
    req,         \* the request served last
    resp,        \* its response
    validators,  \* history: the (path, accept-encoding, ETag) of every 200 sent
    served,      \* the number of requests served
    built,       \* the outcome of the call of the engine's serve(dir, opts)
    wrapper      \* the Electron wrapper: its serve(options), the app and the window

vars == <<opts, FILES, req, resp, validators, served, built, wrapper>>

Options(noCache, etag, single, ignoresOpt, dotfiles, compress, maxAge, hook) ==
    [noCache |-> noCache, etag |-> etag, single |-> single, ignores |-> ignoresOpt,
     dotfiles |-> dotfiles, gzip |-> compress, brotli |-> compress, maxAge |-> maxAge,
     immutable |-> FALSE, setHeaders |-> hook]

\* The setHeaders hooks tried: none, one that adds a header, one that replaces ETag.
Hooks ==
    {Hook(FALSE, NoHeaders),
     Hook(TRUE, "X-Frame-Options" :> "DENY"),
     Hook(TRUE, "ETag" :> "\"v1\"")}

\* Requests: a path and any of the three headers the handler reads.
RequestsOf(paths, encodings, ranges, tags) ==
    {Request(p, (IF ae = "" THEN NoHeaders ELSE "accept-encoding" :> ae)
                @@ (IF rg = "" THEN NoHeaders ELSE "range" :> rg)
                @@ (IF tag = "" THEN NoHeaders ELSE "if-none-match" :> tag)) :
        p \in paths, ae \in encodings, rg \in ranges, tag \in tags}

\* The validators a client can send back: none, or an ETag it was sent.
KnownTags == {""} \cup {v.etag : v \in validators}

Start(o) ==
    /\ opts = o
    /\ FILES = BuildIndex(o)
    /\ req = Request("", NoHeaders)
    /\ resp = NoResponse
    /\ validators = {}
    /\ served = 0
    /\ built = Built(RootDir)
    /\ wrapper = NoWrapper

\* The handler serves request r.
Handle(r) ==
    /\ LET step(out) ==
               /\ FILES' = out.files
               /\ resp' = out.resp
               /\ validators' =
                     IF out.resp.outcome = "response" /\ out.resp.status = 200
                        /\ "ETag" \in DOMAIN out.resp.headers
                     THEN validators \cup
                          {[url |-> r.url,
                            encoding |-> Get(r, "accept-encoding"),
                            etag |-> out.resp.headers["ETag"]]}
                     ELSE validators
       IN  step(handler(r, FILES, opts))
    /\ req' = r
    /\ served' = served + 1
    /\ UNCHANGED <<opts, built, wrapper>>

(***************************************************************************)
(* Spec: conditional and range requests against a few resources, cached    *)
(* and uncached, with and without ETags, compression and a setHeaders hook.*)
(***************************************************************************)
SendOptions ==
    {Options(noCache, etag, Single(FALSE, ""), Ignores(FALSE, <<>>), FALSE, compress,
             MaxAge(FALSE, 0), hook) :
        noCache \in BOOLEAN, etag \in BOOLEAN, compress \in BOOLEAN, hook \in Hooks}

SendPaths == {"/foo", "/app.js"}

SendEncodings == {"", "gzip, br"}

SendRanges == {"", "bytes=0-", "bytes=0-0", "bytes=1-2", "bytes=9-14", "bytes=2-1"}

Init == \E o \in SendOptions : Start(o)

\* The accept-encoding header is read only against gzips and brots, so it is
\* varied only for a server that has them.
Next ==
    /\ served < MaxRequests
    /\ \E r \in RequestsOf(SendPaths,
                           IF opts.gzip \/ opts.brotli THEN SendEncodings ELSE {""},
                           SendRanges, KnownTags) : Handle(r)

Spec == Init /\ [][Next]_vars

(***************************************************************************)
(* ResolveSpec: plain requests for many paths, under the options that      *)
(* decide resolution: the lookup, the single-page fallback and its ignore  *)
(* patterns, dotfiles, and compression.                                    *)
(***************************************************************************)
\* single and ignores together: ignores is read only by the fallback, so it is
\* given only with single: true.
Fallbacks ==
    {<<Single(FALSE, ""), Ignores(FALSE, <<>>)>>,
     <<Single(TRUE, ""), Ignores(FALSE, <<>>)>>,
     <<Single(TRUE, ""), Ignores(TRUE, <<"/api/">>)>>,
     <<Single(TRUE, "index.html"), Ignores(FALSE, <<>>)>>}

ResolveOptions ==
    {Options(noCache, FALSE, spa[1], spa[2], dotfiles, compress, MaxAge(FALSE, 0),
             Hook(FALSE, NoHeaders)) :
        noCache \in BOOLEAN, spa \in Fallbacks,
        dotfiles \in BOOLEAN, compress \in BOOLEAN}

\* The paths requested: resources, misses, hidden names, dot segments plain and
\* escaped, an escaped dot inside a name, and a malformed escape.
ResolvePaths ==
    {"/", "/foo", "/bar", "/docs", "/docs/", "/blog", "/app.js",
     "/app/unknown-route", "/assets/missing.js", "/API/users",
     "/../www-private/key", "/docs/%2E%2E/foo", "/.env", "/.well-known/acme",
     "/foo%2Ehtml", "/%E0%A4%A", "/50%"}

ResolveEncodings == {"", "gzip", "gzip, br"}

ResolveInit == \E o \in ResolveOptions : Start(o)

\* As under Spec, accept-encoding is varied only for a server with compression.
ResolveNext ==
    /\ served < MaxLookups
    /\ \E r \in RequestsOf(ResolvePaths,
                           IF opts.gzip \/ opts.brotli THEN ResolveEncodings ELSE {""},
                           {""}, {""}) : Handle(r)

ResolveSpec == ResolveInit /\ [][ResolveNext]_vars

(***************************************************************************)
(* CacheSpec: plain and conditional requests under the options that decide *)
(* the Cache-Control header: maxAge, immutable, etag and noCache.          *)
(***************************************************************************)
CacheOptions ==
    {[Options(noCache, etag, Single(FALSE, ""), Ignores(FALSE, <<>>), FALSE, FALSE,
              maxAge, Hook(FALSE, NoHeaders)) EXCEPT !.immutable = immutable] :
        noCache \in BOOLEAN, etag \in BOOLEAN, immutable \in BOOLEAN,
        maxAge \in {MaxAge(FALSE, 0), MaxAge(TRUE, 0), MaxAge(TRUE, 3600)}}

CachePaths == {"/", "/foo", "/app.js"}

CacheInit == \E o \in CacheOptions : Start(o)

CacheNext ==
    /\ served < MaxFetches
    /\ \E r \in RequestsOf(CachePaths, {""}, {""}, KnownTags) : Handle(r)

CacheSpec == CacheInit /\ [][CacheNext]_vars

(***************************************************************************)
(* WrapperSpec: an Electron main process that calls the engine's serve or  *)
(* the wrapper's serve, sees the app become ready, and loads the window.   *)
(***************************************************************************)
\* serve(dir, opts) of the engine, from dir = resolve(dir || ".") to the index
\* build; the handler is returned whatever dir is.
SirvServe(dir) ==
    /\ built.outcome = "none"
    /\ built' = Built(dir)
    /\ FILES' = BuildIndex(opts)
    /\ UNCHANGED <<opts, req, resp, validators, served, wrapper>>

\* serve(options | URL) of the wrapper: the URL variant returns its load function
\* at once; the options variant throws without a directory, and else resolves
\* it, registers the scheme as privileged and listens for the app's ready event.
WrapperServe(arg) ==
    /\ wrapper.outcome = "none"
    /\ wrapper' =
          IF arg.kind = "url"
          THEN [wrapper EXCEPT !.outcome = "returned", !.arg = arg]
          ELSE IF arg.directory = ""
          THEN [wrapper EXCEPT !.outcome = "throw", !.arg = WithDefaults(arg)]
          ELSE LET options == [WithDefaults(arg) EXCEPT
                                  !.directory = resolve(AppPath, arg.directory)]
               IN  [wrapper EXCEPT
                       !.outcome = "returned", !.arg = options,
                       !.privileged = @ \cup {options.scheme},
                       !.listeners = @ \cup {[scheme |-> options.scheme,
                                              directory |-> options.directory]}]
    /\ UNCHANGED <<opts, FILES, req, resp, validators, served, built>>

\* The app's ready event, emitted once: each listener registered by then calls
\* session.protocol.handle(scheme, sirv(directory, options)).
Ready ==
    /\ ~wrapper.ready
    /\ wrapper' = [wrapper EXCEPT !.ready = TRUE, !.handlers = wrapper.listeners]
    /\ IF wrapper.listeners = {} THEN UNCHANGED <<built, FILES>>
       ELSE /\ built' = Built((CHOOSE l \in wrapper.listeners : TRUE).directory)
            /\ FILES' = BuildIndex(opts)
    /\ UNCHANGED <<opts, req, resp, validators, served>>

\* A call of the load function serve() returned.
Load(params) ==
    /\ wrapper.outcome = "returned"
    /\ wrapper.loads < MaxLoads
    /\ wrapper' = [wrapper EXCEPT !.window = LoadedURL(wrapper, params),
                                  !.asked = params, !.loads = @ + 1]
    /\ UNCHANGED <<opts, FILES, req, resp, validators, served, built>>

WrapperArgs ==
    {UrlArg("http://localhost:3000/")}
    \cup {OptionsArg(directory, scheme, hostname) :
             directory \in {"", "www"}, scheme \in {"", "foo"}, hostname \in {"", "x"}}

EngineDirs == {"", ".", "/srv/www"}

SearchParameters ==
    {NoParams, Params(<<>>), Params(<<<<"id", "4">>, <<"foo", "bar">>>>),
     Params(<<<<"q", "a b&c">>>>)}

\* Before any serve() is called: no handler, an empty index, default options.
WrapperInit ==
    /\ opts = Options(FALSE, FALSE, Single(FALSE, ""), Ignores(FALSE, <<>>), FALSE,
                      FALSE, MaxAge(FALSE, 0), Hook(FALSE, NoHeaders))
    /\ FILES = BuildIndex([opts EXCEPT !.noCache = TRUE])
    /\ req = Request("", NoHeaders)
    /\ resp = NoResponse
    /\ validators = {}
    /\ served = 0
    /\ built = NotBuilt
    /\ wrapper = NoWrapper

WrapperNext ==
    \/ \E dir \in EngineDirs : SirvServe(dir)
    \/ \E arg \in WrapperArgs : WrapperServe(arg)
    \/ Ready
    \/ \E params \in SearchParameters : Load(params)

WrapperSpec == WrapperInit /\ [][WrapperNext]_vars

(***************************************************************************)
(* Claims about the response (checked under Spec).                         *)
(***************************************************************************)
\* The response was built from a resolved entry.
FromEntry == resp.outcome = "response" /\ resp.status # 404

\* The size on disk of the file the response was built from.
ServedSize == Disk[resp.abs].size

\* C1: in cached mode, whatever requests came before, a 200 response carries a
\* Content-Length equal to the size on disk of the file it serves.
C1_ContentLengthIsFileSize ==
    (~opts.noCache /\ resp.outcome = "response" /\ resp.status = 200)
        => HasHeader(resp.headers, "Content-Length", ToString(ServedSize))

\* C2: a request with a Range header never makes the handler raise, and when the
\* start of the range is at or beyond the size N of the resolved entry the
\* response is 416 with Content-Range "bytes */N" and carries no body.
C2_UnsatisfiableRangeIs416 ==
    ("range" \in DOMAIN req.headers) =>
        /\ resp.outcome # "throw"
        /\ (FromEntry /\ resp.status # 304
            /\ RangeStart(req.headers["range"]) >= ServedSize)
               => /\ resp.status = 416
                  /\ HasHeader(resp.headers, "Content-Range",
                               "bytes */" \o ToString(ServedSize))
                  /\ resp.bytes = {}

\* The range a header bytes=s-e asks for: s, and e or the last byte when e is
\* omitted.
AskedRange(range, size) ==
    LET of(parts) ==
            [s |-> parseInt(parts[1]).val,
             e |-> IF Len(parts) < 2 \/ parts[2] = "" THEN size - 1
                   ELSE parseInt(parts[2]).val,
             wellFormed |-> /\ Len(parts) <= 2
                            /\ ~parseInt(parts[1]).nan
                            /\ (Len(parts) < 2 \/ parts[2] = "" \/ ~parseInt(parts[2]).nan)]
    IN  of(Split(ReplaceFirst(range, "bytes=", ""), "-"))

\* C3: a Range bytes=s-e with 0 <= s <= e < N (e may be omitted) on a resolved
\* entry of size N gets 206 with Content-Range "bytes s-e/N", Content-Length
\* e-s+1, Accept-Ranges bytes and the bytes s..e of the file as its body.
C3_SatisfiableRangeIs206 ==
    ("range" \in DOMAIN req.headers /\ resp.abs # "" /\ resp.status # 304) =>
        LET asked == AskedRange(req.headers["range"], ServedSize)
        IN  (asked.wellFormed /\ 0 <= asked.s /\ asked.s <= asked.e
             /\ asked.e < ServedSize)
            => /\ resp.outcome = "response"
               /\ resp.status = 206
               /\ HasHeader(resp.headers, "Content-Range",
                            "bytes " \o ToString(asked.s) \o "-" \o ToString(asked.e)
                            \o "/" \o ToString(ServedSize))
               /\ HasHeader(resp.headers, "Content-Length",
                            ToString(asked.e - asked.s + 1))
               /\ HasHeader(resp.headers, "Accept-Ranges", "bytes")
               /\ resp.hasBody
               /\ resp.bytes = asked.s..asked.e

\* A step serves a request that sends back validator v: the ETag of an earlier
\* 200 for the same path.
Revalidates(v) ==
    /\ req'.url = v.url
    /\ "if-none-match" \in DOMAIN req'.headers
    /\ req'.headers["if-none-match"] = v.etag

NotModifiedResponse ==
    resp'.outcome = "response" /\ resp'.status = 304 /\ ~resp'.hasBody /\ resp'.bytes = {}

\* With ETags enabled, a request that names an entry and carries neither a range
\* nor a validator is answered 200 with an ETag header.
FirstRequestCarriesETag ==
    (opts.etag /\ DOMAIN req'.headers \subseteq {"accept-encoding"} /\ resp'.abs # "")
        => resp'.outcome = "response" /\ resp'.status = 200
           /\ "ETag" \in DOMAIN resp'.headers

\* C4, as claimed: with ETags enabled, once a request for a path was answered 200
\* with ETag H, every later request for that path sending If-None-Match: H is
\* answered 304 without a body, whatever was served in between.
C4_AnyLaterRequestIs304 ==
    [][/\ FirstRequestCarriesETag
       /\ \A v \in validators :
             (opts.etag /\ Revalidates(v)) => NotModifiedResponse]_vars

\* C4, amended: the same, for a later request that negotiates the same encoding
\* (sends the same accept-encoding, so resolves to the same file), under a
\* setHeaders hook that does not replace the ETag header.
C4_SameEncodingRequestIs304 ==
    [][/\ FirstRequestCarriesETag
       /\ \A v \in validators :
             (/\ opts.etag
              /\ "ETag" \notin DOMAIN opts.setHeaders.returns
              /\ Revalidates(v)
              /\ Get(req', "accept-encoding") = v.encoding)
             => NotModifiedResponse]_vars

\* C4's case: the third request is a 304 on an entry that a 200 and then a range
\* request were served from before (the index still holds the range headers).
C4_Witness ==
    /\ opts.etag /\ ~opts.noCache
    /\ served = 3
    /\ resp.status = 304
    /\ "Content-Range" \in DOMAIN resp.headers
    /\ \E v \in validators :
          v.url = req.url /\ v.etag = Get(req, "if-none-match")

\* C10: with gzip or brotli configured, every response built from a resolved
\* entry (200, 206, 304 or 416) carries Vary: Accept-Encoding.
C10_VaryOnEveryResponse ==
    ((opts.gzip \/ opts.brotli) /\ FromEntry)
        => HasHeader(resp.headers, "Vary", "Accept-Encoding")

(***************************************************************************)
(* Claims about resolution (checked under ResolveSpec).                    *)
(***************************************************************************)
\* The path the last request asks for, as the lookup receives it.
AskedPath == DecodedPath(UrlPathname(req.url))

\* The encodings the last request advertises and the server has enabled.
Advertised ==
    {c \in {"br", "gz"} :
        \/ c = "br" /\ opts.brotli /\ Includes(toLowerCase(Get(req, "accept-encoding")), "br")
        \/ c = "gz" /\ opts.gzip /\ Includes(Get(req, "accept-encoding"), "gzip")}

\* The suffixes in priority order, written out for the default extensions:
\* brotli variants, gzip variants, the path itself, then each extension.
PrioritySuffixes(encs) ==
    (IF "br" \in encs THEN <<".html.br", ".htm.br", ".br">> ELSE <<>>)
    \o (IF "gz" \in encs THEN <<".html.gz", ".htm.gz", ".gz">> ELSE <<>>)
    \o <<"", ".html", ".htm">>

\* The names tried for path p (without its trailing slash), in order: for each
\* suffix, p with the suffix (unless p is empty) and then p/index with it.
RECURSIVE NamesFor(_, _)
NamesFor(p, suffixes) ==
    IF suffixes = <<>> THEN <<>>
    ELSE (IF p # "" THEN <<p \o Head(suffixes)>> ELSE <<>>)
         \o <<p \o "/index" \o Head(suffixes)>>
         \o NamesFor(p, Tail(suffixes))

PriorityNames(p) == NamesFor(p, PrioritySuffixes(Advertised))

\* A URL name (no dot segments) names a file the handler can serve: a key of the
\* index, or under noCache a file under the root.
Servable(name) ==
    IF opts.noCache
    THEN (RootDir \o name) \in DOMAIN Disk /\ Disk[RootDir \o name].kind = "file"
    ELSE name \in DOMAIN FILES

FileOf(name) == IF opts.noCache THEN RootDir \o name ELSE FILES[name].abs

\* No name tried before `target` is servable.
NoneBefore(names, target) ==
    \A n \in 1..Len(names) :
        (\E m \in n..Len(names) : names[m] = target)
            => (names[n] = target \/ ~Servable(names[n]))

Serves(abs) == resp.outcome = "response" /\ resp.status = 200 /\ resp.abs = abs

\* C5: in single-page mode a path that resolves to no file gets the fallback
\* document unless it is ignored; an extension-shaped path such as
\* /assets/missing.js is ignored and gets 404, and /app/unknown-route gets the
\* fallback document.
C5_ExtensionPathsGet404 ==
    (opts.single.on /\ served > 0
     /\ ~lookup(FILES, opts, AskedPath, Negotiate(opts, Get(req, "accept-encoding"))).found)
        => /\ AnyExtn(AskedPath) => resp.status = 404
           /\ req.url = "/assets/missing.js" => resp.status = 404
           /\ req.url = "/app/unknown-route" => Serves("/srv/www/index.html")

\* Some resource the request can name has both a brotli and a gzip variant.
BothVariants ==
    \E n \in 1..Len(NamesFor(StripTrailingSep(AskedPath), <<"", ".html", ".htm">>)) :
        LET name == NamesFor(StripTrailingSep(AskedPath), <<"", ".html", ".htm">>)[n]
        IN  Servable(name) /\ Servable(name \o ".br") /\ Servable(name \o ".gz")

\* C6: with brotli and gzip enabled, a request that advertises both, for a
\* resource that has both variants, is served the brotli variant.
C6_BrotliPreferred ==
    (opts.gzip /\ opts.brotli /\ served > 0 /\ Advertised = {"br", "gz"} /\ BothVariants)
        => /\ resp.outcome = "response" /\ resp.status = 200
           /\ EndsWith(resp.abs, ".br")
           /\ HasHeader(resp.headers, "Content-Encoding", "br")

\* C6's case: /app.js, which has both variants, asked with both encodings.
C6_Witness ==
    /\ opts.gzip /\ opts.brotli /\ BothVariants
    /\ req.url = "/app.js" /\ Advertised = {"br", "gz"}
    /\ Serves("/srv/www/app.js.br")

\* C7: cached or not, no request resolves to an entry whose absolute path lies
\* outside the served root, and no entry of the index lies outside it.
C7_NeverOutsideRoot ==
    /\ resp.abs # "" =>
          StartsWith(resp.abs, RootDir \o sep) /\ normalize(resp.abs) = resp.abs
    /\ \A k \in DOMAIN FILES : StartsWith(FILES[k].abs, RootDir \o sep)

\* C7's case: under noCache, a path that climbs out of the root to a file that
\* exists next to it is answered 404, a second request after a first.
C7_Witness ==
    /\ opts.noCache /\ ~opts.single.on /\ served = 2
    /\ req.url = "/../www-private/key"
    /\ existsSync(normalize(join(RootDir \o sep, req.url \o ".html")))
    /\ resp.outcome = "response" /\ resp.status = 404

\* Index key k ends in ".s" and the request asks for k without that suffix.
AsksWithout(k, s) == EndsWith(k, "." \o s) /\ AskedPath = DropLast(k, Len(s) + 1)

\* C8, as claimed: a request for an indexed file's path with its configured
\* extension removed resolves to that file.
C8_ElisionResolves ==
    \A k \in DOMAIN FILES : \A s \in {"html", "htm"} :
        (served > 0 /\ AsksWithout(k, s)) => Serves(FILES[k].abs)

\* C8, amended: it resolves to that file when the name left is not empty (the
\* path does not end in "/") and no name tried earlier is indexed: an advertised
\* compressed variant, the path itself, its /index, or an earlier extension's.
C8_ElisionUnlessShadowed ==
    \A k \in DOMAIN FILES : \A s \in {"html", "htm"} :
        (served > 0 /\ AsksWithout(k, s) /\ ~EndsWith(AskedPath, "/")
         /\ NoneBefore(PriorityNames(AskedPath), k))
            => Serves(FILES[k].abs)

\* C8's case: /blog is served blog.html, which nothing shadows, although
\* blog/index.html is indexed too.
C8_Witness ==
    /\ ~opts.noCache /\ req.url = "/blog" /\ Advertised = {}
    /\ "/blog/index.html" \in DOMAIN FILES
    /\ Serves("/srv/www/blog.html")

\* The directories under the root, the root included, and their URL paths.
Directories ==
    {d \in DOMAIN Disk :
        Disk[d].kind = "dir" /\ (d = RootDir \/ StartsWith(d, RootDir \o sep))}

UrlOf(d) == SubSeq(d, Len(RootDir) + 1, Len(d))

AsksDirectory(d) ==
    served > 0 /\ (AskedPath = UrlOf(d) \o "/" \/ (d # RootDir /\ AskedPath = UrlOf(d)))

\* The request resolves as the same path does with its trailing slash added or
\* removed.
SameAsSibling ==
    LET same(other) ==
            other = "" \/
            resp.abs = Resolve(FILES, opts, other,
                               Negotiate(opts, Get(req, "accept-encoding"))).abs
    IN  same(IF EndsWith(AskedPath, "/") THEN DropLast(AskedPath, 1)
             ELSE AskedPath \o "/")

\* C9, as claimed: a request for a directory that holds index.<ext> resolves to
\* that index file, with or without a trailing slash.
C9_DirectoryIndexResolves ==
    \A d \in Directories : \A e \in {"html", "htm"} :
        (AsksDirectory(d) /\ existsSync(d \o "/index." \o e))
            => Serves(d \o "/index." \o e) /\ SameAsSibling

\* C9, amended: it resolves to that index file when the file is servable (in
\* cached mode: indexed) and no name tried earlier is servable (an advertised
\* compressed variant, index without extension, a sibling file d.<ext>, or an
\* earlier extension's index); with or without the trailing slash the request
\* resolves alike.
C9_DirectoryIndexUnlessShadowed ==
    \A d \in Directories : \A e \in {"html", "htm"} :
        (AsksDirectory(d) /\ existsSync(d \o "/index." \o e))
            => /\ SameAsSibling
               /\ (Servable(UrlOf(d) \o "/index." \o e)
                   /\ NoneBefore(PriorityNames(UrlOf(d)), UrlOf(d) \o "/index." \o e))
                  => Serves(d \o "/index." \o e)

\* C9's case: /docs/ is served docs/index.html under noCache, where the name
\* /docs itself exists and is a directory.
C9_Witness ==
    /\ opts.noCache /\ req.url = "/docs/"
    /\ existsSync(RootDir \o "/docs") /\ statSync(RootDir \o "/docs").kind = "dir"
    /\ Serves("/srv/www/docs/index.html")

(***************************************************************************)
(* Claims about the hook, the index and the order of the handler's tests   *)
(* (checked under Spec).                                                   *)
(***************************************************************************)
\* C11: every header the setHeaders hook returns is on the response with the
\* hook's value, on every response built from a resolved entry (200, 206, 416
\* and 304).
C11_HookHeadersAppliedLast ==
    (opts.setHeaders.on /\ FromEntry)
        => \A name \in DOMAIN opts.setHeaders.returns :
              HasHeader(resp.headers, name, opts.setHeaders.returns[name])

\* C15: serving requests never changes the index: in cached mode every entry
\* holds the headers computed when the index was built.
C15_IndexNeverChanges ==
    ~opts.noCache => FILES = BuildIndex(opts)

\* The ETag of the entry the next response is built from, as the handler finds
\* it: the one stored in the index, or under noCache the one computed afresh.
EntryTag ==
    IF opts.noCache THEN WeakETag(Disk[resp'.abs])
    ELSE FILES[KeyOf(resp'.abs)].headers["ETag"]

\* C19: the conditional check comes before the range: a request with a Range
\* header whose If-None-Match equals the entry's ETag, ETags enabled, is answered
\* 304 without a body; when the check does not match or ETags are disabled the
\* Range is evaluated (206 or 416, or the stream's refusal of the range).
C19_ConditionalBeforeRange ==
    [][("range" \in DOMAIN req'.headers /\ resp'.abs # "")
          => IF opts.etag /\ Get(req', "if-none-match") = EntryTag
             THEN NotModifiedResponse
             ELSE resp'.outcome = "throw" \/ resp'.status \in {206, 416}]_vars

\* C19's case: a request with a matching validator and a Range header was
\* answered 304.
C19_Witness ==
    /\ opts.etag /\ served > 1
    /\ "range" \in DOMAIN req.headers
    /\ \E v \in validators : v.url = req.url /\ v.etag = Get(req, "if-none-match")
    /\ resp.outcome = "response" /\ resp.status = 304 /\ ~resp.hasBody

(***************************************************************************)
(* Claims about ignore rules, the two lookups, malformed paths and         *)
(* negotiation (checked under ResolveSpec).                                *)
(***************************************************************************)
\* The last request's path resolves to no file of its own.
Unresolved ==
    ~lookup(FILES, opts, AskedPath, Negotiate(opts, Get(req, "accept-encoding"))).found

\* Some segment of the path starts with a dot.
HiddenSegment(path) == Includes(path, "/.")

\* C16: with ignore rules configured for the single-page fallback, a path with a
\* hidden segment is ignored (404, no fallback) when dotfiles are not allowed;
\* when dotfiles are allowed it is ignored only if the segment is .well-known,
\* and otherwise gets the fallback document.
C16_HiddenPathsIgnored ==
    (opts.single.on /\ opts.ignores.on /\ served > 0 /\ Unresolved
     /\ HiddenSegment(AskedPath))
        => IF ~opts.dotfiles \/ Includes(AskedPath, "/.well-known")
           THEN resp.status = 404
           ELSE (/\ ~AnyExtn(AskedPath)
                 /\ \A n \in 1..Len(opts.ignores.patterns) :
                       ~UserPattern(AskedPath, opts.ignores.patterns[n]))
                   => Serves("/srv/www/index.html")

\* C17: for the same files, options, path and suffix list, viaCache over the index
\* and viaLocal over the filesystem both find nothing or both find the same file.
C17_CachedAndUncachedAgree ==
    LET agree(cached, local) ==
            cached.found = local.found /\ (cached.found => cached.abs = local.abs)
        suffixes == Negotiate(opts, Get(req, "accept-encoding"))
    IN  served > 0 =>
            agree(viaCache(BuildIndex([opts EXCEPT !.noCache = FALSE]), AskedPath, suffixes),
                  viaLocal(RootDir \o sep, opts.etag, AskedPath, suffixes))

\* The last request's path is one decodeURI rejects.
Malformed ==
    /\ served > 0
    /\ Includes(UrlPathname(req.url), "%")
    /\ ~decodeURI(UrlPathname(req.url)).ok

\* C18: a path with an invalid percent escape never makes the handler throw:
\* the path is resolved as sent, still encoded, and the request ends as any
\* other does: the entry it names, the single-page fallback, or 404.
C18_MalformedEscapeSwallowed ==
    LET asSent(data) ==
            /\ resp.outcome = "response"
            /\ IF data.found THEN Serves(data.abs) ELSE resp.status = 404
    IN  Malformed =>
            asSent(Resolve(FILES, opts, UrlPathname(req.url),
                           Negotiate(opts, Get(req, "accept-encoding"))))

\* C18's case: /50%, whose escape is cut short, is served the file of that name.
C18_Witness ==
    /\ Malformed /\ req.url = "/50%"
    /\ Serves("/srv/www/50%")

\* C20: negotiation changes the encoding only: when the path resolves to file F
\* with no encoding advertised, the request is served F, F.br or F.gz.
C20_NegotiationKeepsResource ==
    LET same(plain) ==
            plain.found =>
                /\ resp.outcome = "response"
                /\ resp.abs \in {plain.abs, plain.abs \o ".br", plain.abs \o ".gz"}
    IN  served > 0 => same(Resolve(FILES, opts, AskedPath, Negotiate(opts, "")))

(***************************************************************************)
(* The claim about the index's Cache-Control (checked under CacheSpec).    *)
(***************************************************************************)
\* The Cache-Control policy claimed for the options.
PolicyClaimed ==
    IF opts.maxAge.on
    THEN "public,max-age=" \o ToString(opts.maxAge.value)
         \o (IF opts.immutable THEN ",immutable"
             ELSE IF opts.maxAge.value = 0 THEN ",must-revalidate" ELSE "")
    ELSE IF opts.etag THEN "no-cache" ELSE "no-store"

\* C12: every entry of the index built in cached mode has a Cache-Control
\* header: public,max-age=<n> (with ,immutable or, for 0, ,must-revalidate) when
\* a max-age is configured, otherwise no-cache with ETags and no-store without.
C12_IndexCacheControl ==
    ~opts.noCache =>
        \A k \in DOMAIN FILES : HasHeader(FILES[k].headers, "Cache-Control", PolicyClaimed)

(***************************************************************************)
(* Claims about construction and the load function (checked under          *)
(* WrapperSpec).                                                           *)
(***************************************************************************)
\* C13: a server constructed without a root directory fails at construction:
\* the engine's serve returns no handler, and the wrapper's serve throws and
\* registers neither a scheme nor a protocol handler.
C13_NoDirectoryFailsConstruction ==
    /\ (built.outcome # "none" /\ built.given = "") => built.outcome = "throw"
    /\ (wrapper.outcome # "none" /\ wrapper.arg.kind = "options"
        /\ wrapper.arg.directory = "")
          => /\ wrapper.outcome = "throw"
             /\ wrapper.privileged = {} /\ wrapper.listeners = {}
             /\ wrapper.handlers = {}

\* The URL a load function navigates to when called without search parameters.
BareURL ==
    IF wrapper.arg.kind = "url" THEN wrapper.arg.href
    ELSE wrapper.arg.scheme \o "://" \o wrapper.arg.hostname

\* C14: a load function called with search parameters navigates the window to
\* its URL with the URL-encoded parameters as query string, and called without
\* them to the bare URL; for the options variant and the URL variant alike.
C14_LoadCarriesSearchParameters ==
    wrapper.loads > 0 =>
        wrapper.window =
            BareURL \o (IF wrapper.asked.given
                        THEN "?" \o SearchString(wrapper.asked.pairs) ELSE "")

=============================================================================
